---- MODULE Spec2Model ----
(***************************************************************************)
(* SEXLNet (src/model/SE_XLNet.py): the forward composition                *)
(* (encode -> pool -> LIL, GIL -> fusion -> accuracy) and the              *)
(* training / validation / test step contracts.                            *)
(*                                                                         *)
(* Tensors are sequences; a scalar is an exact rational <<n, d>> with      *)
(* d > 0 in lowest terms, and <<0, 0>> is NaN (the value of 0/0, which is  *)
(* what a mean over an empty dimension computes).  Rounding is not         *)
(* modelled.  Class ids are 0 .. num_classes-1 as in the code; sequence    *)
(* positions are 1-based, so logit position c holds class c-1.             *)
(***************************************************************************)
EXTENDS Integers, Sequences, FiniteSets

VARIABLES
    hparams,        \* self.hparams: topk, lamda, gamma, num_classes
    params,         \* trainable blocks: classifier, phrase_logits, topk_gil_mlp
    concept_store,  \* self.concept_store: [data, device]
    device,         \* self.model.device
    training,       \* nn.Module.training (drives nn.Dropout)
    optimizer,      \* the parameter blocks handed to AdamW, or "unset"
    pc,             \* position of the trainer: "setup" | "idle" | "done"
    fwd,            \* outcome of the latest forward call
    ret,            \* outcome of the latest step
    logged          \* self.log calls made by the latest step

vars == <<hparams, params, concept_store, device, training, optimizer,
          pc, fwd, ret, logged>>

-----------------------------------------------------------------------------
(* Scalars *)

NaN == <<0, 0>>

IsNaN(a) == a[2] = 0

Abs(n) == IF n < 0 THEN -n ELSE n

RECURSIVE GCD(_, _)
GCD(a, b) == IF b = 0 THEN a ELSE GCD(b, a % b)

\* n/d in lowest terms; anything over 0 that reaches here is 0/0
Norm(n, d) ==
    IF d = 0 THEN NaN
    ELSE IF d = 1 THEN <<n, 1>>
    ELSE LET g == GCD(Abs(n), Abs(d))
             s == IF d < 0 THEN -1 ELSE 1
         IN  <<(s * n) \div g, (s * d) \div g>>

R(n) == <<n, 1>>

RAdd(a, b) == IF IsNaN(a) \/ IsNaN(b) THEN NaN
              ELSE IF a[2] = b[2] THEN Norm(a[1] + b[1], a[2])
              ELSE Norm(a[1] * b[2] + b[1] * a[2], a[2] * b[2])

RMul(a, b) == IF IsNaN(a) \/ IsNaN(b) THEN NaN
              ELSE Norm(a[1] * b[1], a[2] * b[2])

\* a / n for an integer count n; the only division by 0 the code performs is
\* the mean over an empty dimension, whose sum is 0
RDivInt(a, n) == IF IsNaN(a) THEN NaN ELSE Norm(a[1], a[2] * n)

\* a > b on floats: false when either is NaN
RGt(a, b) == ~IsNaN(a) /\ ~IsNaN(b) /\ a[1] * b[2] > b[1] * a[2]

RECURSIVE RSum(_)
RSum(s) == IF s = <<>> THEN R(0) ELSE RAdd(s[1], RSum(Tail(s)))

Dot(u, v) == RSum([k \in 1..Len(u) |-> RMul(u[k], v[k])])

\* an integer vector as a scalar vector
V(ints) == [k \in 1..Len(ints) |-> R(ints[k])]

\* nn.ReLU
ReLU(a) == IF IsNaN(a) THEN NaN ELSE IF a[1] > 0 THEN a ELSE R(0)

\* nn.Linear(in, out) with its default bias: y = W x + b
Linear(layer, x) ==
    [c \in 1..Len(layer.W) |-> RAdd(Dot(layer.W[c], x), layer.b[c])]

\* TimeDistributed(module): the module applied to every slot of dim 1
TimeDistributed(layer, x) ==
    [i \in 1..Len(x) |-> [p \in 1..Len(x[i]) |-> Linear(layer, x[i][p])]]

\* torch.sum in place of torch.mean
SumDim1(x, n) ==
    [i \in 1..Len(x) |->
        [c \in 1..n |-> RSum([p \in 1..Len(x[i]) |-> x[i][p][c]])]]

\* torch.mean(x, dim=1) of x : [B, P, n] -> [B, n]; sum over P, divided by P
MeanDim1(x, n) ==
    [i \in 1..Len(x) |->
        [c \in 1..n |->
            RDivInt(RSum([p \in 1..Len(x[i]) |-> x[i][p][c]]), Len(x[i]))]]

-----------------------------------------------------------------------------
(* Shapes and data of the modelled instance *)

MaxB == 2           \* largest batch size B
MaxP == 2           \* largest number of phrase slots P
MaxCells == 4       \* largest B * (P + 1) of a batch
NumClasses == 2     \* --num_classes default

Classes == 0..(NumClasses - 1)

\* hidden_states[-1] of the pretrained encoder for each token id (d_model = 2);
\* the encoder is an opaque deterministic map
EncoderTable == << <<1, -1>>, <<-1, 2>> >>

\* the token-id sequences a batch may hold (T = 2)
Sentences == { <<1, 2>>, <<2, 1>> }

\* rows of the span-indicator matrix: padding, one token, both tokens
SpanRows == { <<0, 0>>, <<0, 1>>, <<1, 1>> }

\* config.dropout of the pretrained configuration: p = 1/10, kept values
\* are scaled by 1/(1-p)
DropoutScale == <<10, 9>>

\* torch.load(hparams.concept_store): C = 3 rows of dimension D = 2
ConceptStoreData == << V(<<1, 0>>), V(<<0, 1>>), V(<<1, 1>>) >>

Devices == {"cpu", "cuda"}

LayerOf(W, b) == [W |-> [c \in 1..Len(W) |-> V(W[c])], b |-> V(b)]

\* parameter values; nn.Linear carries a bias, which training leaves
\* nonzero in general and which may also be zero
ParamChoices ==
    { [classifier   |-> LayerOf(<< <<1, 0>>, <<0, 1>> >>, <<0, 1>>),
       phrase_logits |-> LayerOf(<< <<1, 1>>, <<1, -1>> >>, pb),
       topk_gil_mlp |-> LayerOf(<< <<1, 0>>, <<1, 1>> >>, <<1, 0>>)]
      : pb \in { <<1, -1>> } }

\* hyperparameters: topk below, at and above the C = 3 rows of the store;
\* the auxiliary branches weighted or switched off
HParamChoices ==
    { [topk |-> h[1], lamda |-> h[2], gamma |-> h[3], num_classes |-> NumClasses]
      : h \in { <<2, Norm(1, 2), R(2)>>, <<3, R(0), R(0)>>, <<4, Norm(1, 2), R(2)>> } }

\* a batch: (tokens, tokens_mask, padded_ndx_tensor, labels), aligned on B
BatchesOf(B, P) ==
    { [tokens |-> tk, tokens_mask |-> [i \in 1..B |-> [t \in 1..Len(tk[i]) |-> 1]],
       padded_ndx_tensor |-> nd, labels |-> lb]
      : tk \in [1..B -> Sentences],
        nd \in [1..B -> [1..P -> SpanRows]],
        lb \in [1..B -> Classes] }

Batches ==
    UNION { BatchesOf(bp[1], bp[2]) :
              bp \in { x \in (1..MaxB) \X (0..MaxP) : x[1] * (x[2] + 1) <= MaxCells } }

\* the outcomes of nn.Dropout's random mask for a [B, D] input
DropoutMasks(B, D) == [1..B -> [1..D -> {0, 1}]]

-----------------------------------------------------------------------------
(* forward *)

\* nn.Dropout: identity in eval mode; in training mode zeroes the masked
\* elements and scales the others
Dropout(x, mask, train) ==
    IF train
    THEN [i \in 1..Len(x) |->
            [d \in 1..Len(x[i]) |->
                IF mask[i][d] = 1 THEN RMul(x[i][d], DropoutScale) ELSE R(0)]]
    ELSE x

\* self.model(...)["hidden_states"][-1] : [B, T, D]
Encoder(input_ids) ==
    [i \in 1..Len(input_ids) |->
        [t \in 1..Len(input_ids[i]) |-> V(EncoderTable[input_ids[i][t]])]]

\* SequenceSummary with summary_type "last": the last position's vector
Pooler(hidden) == [i \in 1..Len(hidden) |-> hidden[i][Len(hidden[i])]]

forward_classifier(input_ids, mask, train) ==
    LET hidden_states == Encoder(input_ids)
    IN  [cls_hidden_state |-> Dropout(Pooler(hidden_states), mask, train),
         hidden_state |-> hidden_states]

\* a pooling that ignores the indicator and sums every token
bmm_all_tokens(M, H) ==
    [i \in 1..Len(M) |->
        [p \in 1..Len(M[i]) |->
            [d \in 1..Len(H[i][1]) |->
                RSum([t \in 1..Len(H[i]) |-> H[i][t][d]])]]]

\* torch.bmm(M, H) : [B, P, T] x [B, T, D] -> [B, P, D]
bmm(M, H) ==
    [i \in 1..Len(M) |->
        [p \in 1..Len(M[i]) |->
            [d \in 1..Len(H[i][1]) |->
                RSum([t \in 1..Len(H[i]) |-> RMul(R(M[i][p][t]), H[i][t][d])])]]]

Activation(x) ==
    [i \in 1..Len(x) |->
        [p \in 1..Len(x[i]) |-> [d \in 1..Len(x[i][p]) |-> ReLU(x[i][p][d])]]]

lil(hidden_state, nt_idx_matrix, prm) ==
    LET phrase_level_hidden == bmm(nt_idx_matrix, hidden_state)
        phrase_level_activations == Activation(phrase_level_hidden)
    IN  [phrase_level_hidden |-> phrase_level_hidden,
         phrase_level_activations |-> phrase_level_activations,
         phrase_level_logits |->
             TimeDistributed(prm.phrase_logits, phrase_level_activations)]

\* torch.mm(pooled_input, concept_store.T) : [B, C]
InnerProducts(pooled_input, store) ==
    [i \in 1..Len(pooled_input) |->
        [j \in 1..Len(store) |-> Dot(pooled_input[i], store[j])]]

\* the best remaining position: no remaining score is greater, lowest
\* position among equals
Best(scores, remaining) ==
    CHOOSE j \in remaining :
        \A m \in remaining :
            /\ ~RGt(scores[m], scores[j])
            /\ (scores[m] = scores[j] => j <= m)

RECURSIVE TopKFrom(_, _, _)
TopKFrom(scores, k, remaining) ==
    IF k = 0 THEN <<>>
    ELSE LET j == Best(scores, remaining)
         IN  <<j>> \o TopKFrom(scores, k - 1, remaining \ {j})

\* the first k rows, whatever their scores
TopK_first_rows(scores, k) == [n \in 1..k |-> n]

\* torch.topk(row, k).indices (row positions, 1-based), largest first
TopK(scores, k) == TopKFrom(scores, k, 1..Len(scores))

\* topk_indices.view(-1)
Flatten(idx, k) ==
    [n \in 1..(Len(idx) * k) |-> idx[((n - 1) \div k) + 1][((n - 1) % k) + 1]]

\* torch.index_select(store, 0, flat).view(batch_size, k, -1)
IndexSelectView(store, flat, batch_size, k) ==
    [i \in 1..batch_size |-> [n \in 1..k |-> store[flat[(i - 1) * k + n]]]]

\* gil() once torch.topk has accepted k
gil_select(pooled_input, store, k, prm) ==
    LET batch_size == Len(pooled_input)
        inner_products == InnerProducts(pooled_input, store)
        topk_indices == [i \in 1..batch_size |-> TopK(inner_products[i], k)]
        topk_concepts ==
            IndexSelectView(store, Flatten(topk_indices, k), batch_size, k)
        gil_topk_logits == TimeDistributed(prm.topk_gil_mlp, topk_concepts)
    IN  [status |-> "ok", inner_products |-> inner_products,
         topk_indices |-> topk_indices,
         gil_topk_logits |-> gil_topk_logits,
         gil_logits |-> MeanDim1(gil_topk_logits, Len(prm.topk_gil_mlp.W))]

\* a gil() that clamps k to the number of rows instead of failing
gil_clamped(pooled_input, store, k, prm) ==
    gil_select(pooled_input, store, IF k > Len(store) THEN Len(store) ELSE k, prm)

\* torch.topk raises "selected index k out of range" when k exceeds the
\* size of the dimension (the C rows of the store)
gil(pooled_input, store, k, prm) ==
    IF k > Len(store)
    THEN [status |-> "error",
          inner_products |-> InnerProducts(pooled_input, store),
          topk_indices |-> <<>>, gil_topk_logits |-> <<>>, gil_logits |-> <<>>]
    ELSE gil_select(pooled_input, store, k, prm)

\* torch.argmax(row, -1) as a class id: the first maximal position, a NaN
\* counting as maximal
ArgMax(row) ==
    LET nans == { c \in 1..Len(row) : IsNaN(row[c]) }
        tops == IF nans # {} THEN nans
                ELSE { c \in 1..Len(row) : \A m \in 1..Len(row) : ~RGt(row[m], row[c]) }
    IN  (CHOOSE c \in tops : \A m \in tops : c <= m) - 1

RECURSIVE CountTrue(_)
CountTrue(bs) == IF bs = <<>> THEN 0
                 ELSE (IF bs[1] THEN 1 ELSE 0) + CountTrue(Tail(bs))

\* the misses counted instead of the hits
Accuracy_of_misses(predicted_labels, labels) ==
    RDivInt(R(CountTrue([i \in 1..Len(labels) |-> predicted_labels[i] # labels[i]])),
            Len(labels))

\* torch.true_divide((predicted_labels == labels).sum(), labels.shape[0])
Accuracy(predicted_labels, labels) ==
    RDivInt(R(CountTrue([i \in 1..Len(labels) |-> predicted_labels[i] = labels[i]])),
            Len(labels))

\* logits + lamda * lil_logits + gamma * gil_logits
Fuse(base, lil_logits, gil_logits, hp) ==
    [i \in 1..Len(base) |->
        [c \in 1..Len(base[i]) |->
            RAdd(RAdd(base[i][c], RMul(hp.lamda, lil_logits[i][c])),
                 RMul(hp.gamma, gil_logits[i][c]))]]

\* a placement that allocates on the device without copying the contents
To_zeroed(store, dev) ==
    IF store.device = dev THEN store
    ELSE [data |-> [j \in 1..Len(store.data) |->
                       [d \in 1..Len(store.data[j]) |-> R(0)]],
          device |-> dev]

\* Tensor.to(device): the same tensor when already resident, else a copy of
\* the same contents on the device
To(store, dev) ==
    IF store.device = dev THEN store ELSE [data |-> store.data, device |-> dev]

NoCall ==
    [status |-> "none", batch |-> <<>>, train |-> FALSE, copied |-> FALSE,
     sentence_cls |-> <<>>, base |-> <<>>, lil |-> <<>>, lil_logits |-> <<>>,
     gil |-> <<>>, logits |-> <<>>, predicted_labels |-> <<>>, acc |-> NaN]

\* forward(batch) with the random outcome `mask` of dropout, on a model in
\* state (hp, prm, store, dev, train); a call that returns is recorded with
\* its intermediates, a call that raises with nothing but its input
forward(batch, mask, hp, prm, store, dev, train) ==
    LET placed == To(store, dev)
        enc == forward_classifier(batch.tokens, mask, train)
        sentence_cls == enc.cls_hidden_state
        base == [i \in 1..Len(sentence_cls) |-> Linear(prm.classifier, sentence_cls[i])]
        l == lil(enc.hidden_state, batch.padded_ndx_tensor, prm)
        lil_logits == MeanDim1(l.phrase_level_logits, Len(prm.phrase_logits.W))
        g == gil(sentence_cls, placed.data, hp.topk, prm)
        head == [NoCall EXCEPT !.batch = batch, !.train = train,
                               !.copied = (placed # store)]
    IN  IF g.status = "error"
        THEN [head EXCEPT !.status = "error"]
        ELSE LET logits == Fuse(base, lil_logits, g.gil_logits, hp)
                 predicted_labels == [i \in 1..Len(logits) |-> ArgMax(logits[i])]
             IN  [head EXCEPT !.status = "ok",
                              !.sentence_cls = sentence_cls, !.base = base,
                              !.lil = l, !.lil_logits = lil_logits, !.gil = g,
                              !.logits = logits,
                              !.predicted_labels = predicted_labels,
                              !.acc = Accuracy(predicted_labels, batch.labels)]

-----------------------------------------------------------------------------
(* Steps *)

\* nn.CrossEntropyLoss()(input, target): kept symbolic, as the loss function
\* applied to its two arguments
CrossEntropyLoss(input, target) ==
    [fn |-> "cross_entropy", input |-> input, target |-> target]

NoLoss == [fn |-> "none", input |-> <<>>, target |-> <<>>]

\* self.log(name, value, on_step=True, on_epoch=True, prog_bar=True, sync_dist=True)
Log(name, value) ==
    [name |-> name, value |-> value, on_step |-> TRUE, on_epoch |-> TRUE,
     prog_bar |-> TRUE, sync_dist |-> TRUE]

NoRet == [status |-> "none", step |-> "none", loss |-> NoLoss]

\* a step that returns {"loss": loss}
Returned(step, loss) == [status |-> "returned", step |-> step, loss |-> loss]

\* a step left by the exception forward raised
Raised(step) == [status |-> "raised", step |-> step, loss |-> NoLoss]

\* the concept store wrapped in nn.Parameter
Attributes_store_parameter ==
    { <<"model", "weights">>, <<"pooler", "weights">>, <<"classifier", "weights">>,
      <<"concept_store", "weights">>, <<"phrase_logits", "weights">>,
      <<"topk", "plain">>, <<"topk_gil_mlp", "weights">>,
      <<"activation", "module">>, <<"lamda", "plain">>, <<"gamma", "plain">>,
      <<"dropout", "module">>, <<"loss", "module">> }

\* the attributes __init__ assigns and what each holds: an nn.Module with
\* weights, an nn.Module without, or a plain value (a tensor, a number);
\* assigning an nn.Module (or nn.Parameter) registers it with the module
Attributes ==
    { <<"model", "weights">>, <<"pooler", "weights">>, <<"classifier", "weights">>,
      <<"concept_store", "plain">>, <<"phrase_logits", "weights">>,
      <<"topk", "plain">>, <<"topk_gil_mlp", "weights">>,
      <<"activation", "module">>, <<"lamda", "plain">>, <<"gamma", "plain">>,
      <<"dropout", "module">>, <<"loss", "module">> }

\* self.parameters(): the weights of the registered attributes
Parameters == { a[1] : a \in { x \in Attributes : x[2] = "weights" } }

MasksFor(batch) ==
    IF training THEN DropoutMasks(Len(batch.tokens), Len(EncoderTable[1]))
    ELSE { [i \in 1..Len(batch.tokens) |-> [d \in 1..Len(EncoderTable[1]) |-> 1]] }

\* what every caller of self(batch) shares: the call, and the concept store
\* left where forward placed it
Call(f) ==
    /\ pc' = "done"
    /\ fwd' = f
    /\ concept_store' = To(concept_store, device)
    /\ UNCHANGED <<hparams, params, device, training, optimizer>>

\* self(batch), evaluated once
Calls(batch, mask) ==
    { forward(batch, mask, hparams, params, concept_store, device, training) }

\* a direct call of the module, for inference: the module is in eval mode
\* (in train mode forward runs as part of training_step)
Forward ==
    /\ pc = "idle"
    /\ ~training
    /\ \E batch \in Batches : \E mask \in MasksFor(batch) :
       \E f \in Calls(batch, mask) :
          /\ Call(f)
          /\ UNCHANGED <<ret, logged>>

\* the trainer runs training steps in train mode
training_step ==
    /\ pc = "idle"
    /\ training
    /\ \E batch \in Batches : \E mask \in MasksFor(batch) :
       \E f \in Calls(batch, mask) :
          /\ Call(f)
          /\ IF f.status = "error"
             THEN ret' = Raised("training_step") /\ logged' = <<>>
             ELSE /\ logged' = << Log("train_acc", f.acc) >>
                  /\ ret' = Returned("training_step",
                                     CrossEntropyLoss(f.logits, batch.labels))

\* the trainer runs validation and test steps in eval mode
validation_step ==
    /\ pc = "idle"
    /\ ~training
    /\ \E batch \in Batches : \E mask \in MasksFor(batch) :
       \E f \in Calls(batch, mask) :
          /\ Call(f)
          /\ IF f.status = "error"
             THEN ret' = Raised("validation_step") /\ logged' = <<>>
             ELSE \E loss \in { CrossEntropyLoss(f.logits, batch.labels) } :
                      /\ logged' = << Log("val_loss", loss), Log("val_acc", f.acc) >>
                      /\ ret' = Returned("validation_step", loss)

\* a test step that reports its accuracy as the other steps do
test_step_logging ==
    /\ pc = "idle"
    /\ ~training
    /\ \E batch \in Batches : \E mask \in MasksFor(batch) :
       \E f \in Calls(batch, mask) :
          /\ Call(f)
          /\ IF f.status = "error"
             THEN ret' = Raised("test_step") /\ logged' = <<>>
             ELSE /\ logged' = << Log("test_acc", f.acc) >>
                  /\ ret' = Returned("test_step",
                                     CrossEntropyLoss(f.logits, batch.labels))

test_step ==
    /\ pc = "idle"
    /\ ~training
    /\ \E batch \in Batches : \E mask \in MasksFor(batch) :
       \E f \in Calls(batch, mask) :
          /\ Call(f)
          /\ IF f.status = "error"
             THEN ret' = Raised("test_step") /\ logged' = <<>>
             ELSE /\ logged' = <<>>
                  /\ ret' = Returned("test_step",
                                     CrossEntropyLoss(f.logits, batch.labels))

\* the external loop takes the step's outcome and moves to the next batch
NextBatch ==
    /\ pc = "done"
    /\ pc' = "idle"
    /\ fwd' = NoCall
    /\ ret' = NoRet
    /\ logged' = <<>>
    /\ UNCHANGED <<hparams, params, concept_store, device, training, optimizer>>

\* the trainer calls configure_optimizers once, before its first step:
\* AdamW(self.parameters(), ...)
configure_optimizers ==
    /\ pc = "setup"
    /\ pc' = "idle"
    /\ optimizer' = Parameters
    /\ UNCHANGED <<hparams, params, concept_store, device, training,
                   fwd, ret, logged>>

\* the trainer moves the module: nn.Module.to(d) moves the registered
\* weights, so self.model.device becomes d
ModuleTo(d) ==
    /\ pc = "idle"
    /\ device # d
    /\ device' = d
    /\ UNCHANGED <<hparams, params, concept_store, training, optimizer,
                   pc, fwd, ret, logged>>

\* the trainer switches mode: nn.Module.train(mode)
SetTrain(mode) ==
    /\ pc = "idle"
    /\ training # mode
    /\ training' = mode
    /\ UNCHANGED <<hparams, params, concept_store, device, optimizer,
                   pc, fwd, ret, logged>>

\* the state after __init__
Init ==
    /\ hparams \in HParamChoices
    /\ params \in ParamChoices
    /\ concept_store = [data |-> ConceptStoreData, device |-> "cpu"]
    /\ device = "cpu"
    /\ training = TRUE
    /\ optimizer = {}
    /\ pc = "setup"
    /\ fwd = NoCall
    /\ ret = NoRet
    /\ logged = <<>>

Next ==
    \/ Forward
    \/ training_step
    \/ validation_step
    \/ test_step
    \/ NextBatch
    \/ configure_optimizers
    \/ \E d \in Devices : ModuleTo(d)
    \/ \E mode \in BOOLEAN : SetTrain(mode)

Spec == Init /\ [][Next]_vars

-----------------------------------------------------------------------------
(* Properties *)

Called == pc = "done" /\ fwd.status # "none"
CalledOk == pc = "done" /\ fwd.status = "ok"

BatchSize == Len(fwd.batch.labels)
Examples == 1..BatchSize
LogitPositions == 1..NumClasses

SpanMatrix(i) == fwd.batch.padded_ndx_tensor[i]
IsPaddingRow(row) == \A t \in 1..Len(row) : row[t] = 0
IsZeroVector(v) == \A d \in 1..Len(v) : v[d] = R(0)
HasNaN(v) == \E d \in 1..Len(v) : IsNaN(v[d])

\* a == b on floats: NaN equals nothing
REq(a, b) == ~IsNaN(a) /\ ~IsNaN(b) /\ a = b

\* C1: for every batch with B >= 1 the accuracy forward returns is the exact
\* number of examples whose predicted label (the position of the greatest
\* fused logit) equals the label, divided by B, and so lies in [0, 1]
AccuracyIsExactFraction ==
    CalledOk =>
        LET hits == { i \in Examples : fwd.predicted_labels[i] = fwd.batch.labels[i] }
        IN  /\ BatchSize >= 1
            /\ \A i \in Examples :
                  /\ fwd.predicted_labels[i] \in Classes
                  /\ \A c \in LogitPositions :
                        ~RGt(fwd.logits[i][c], fwd.logits[i][fwd.predicted_labels[i] + 1])
            /\ ~IsNaN(fwd.acc)
            /\ fwd.acc[1] * BatchSize = Cardinality(hits) * fwd.acc[2]
            /\ 0 <= fwd.acc[1] /\ fwd.acc[1] <= fwd.acc[2]

\* a batch of two with exactly one example classified correctly
AccuracyOneHalf == CalledOk /\ BatchSize = 2 /\ fwd.acc = <<1, 2>>

\* C2: with lamda = 0 and gamma = 0 the fused logits equal the base
\* classifier logits exactly, for every valid batch, empty span matrices
\* included
FusionIdentity ==
    (CalledOk /\ hparams.lamda = R(0) /\ hparams.gamma = R(0)) =>
        \A i \in Examples : \A c \in LogitPositions :
            REq(fwd.logits[i][c], fwd.base[i][c])

\* the raw inner product of example i's sentence summary with store row j
RawScore(i, j) ==
    RSum([d \in 1..Len(fwd.sentence_cls[i]) |->
             RMul(fwd.sentence_cls[i][d], concept_store.data[j][d])])

StoreRows == 1..Len(concept_store.data)

\* C3: for 1 <= topk <= C, gil() selects exactly topk pairwise distinct
\* store rows per example, no unselected row scoring higher (by raw inner
\* product with the sentence summary) than a selected one, and the GIL
\* logits are the mean over those rows of the shared linear projection,
\* one vector of num_classes entries per example
GilSelectsTopk ==
    (CalledOk /\ hparams.topk <= Len(concept_store.data)) =>
        \A i \in Examples :
            LET idx == fwd.gil.topk_indices[i]
                chosen == { idx[n] : n \in 1..Len(idx) }
            IN  /\ Len(idx) = hparams.topk
                /\ chosen \subseteq StoreRows
                /\ Cardinality(chosen) = hparams.topk
                /\ \A u \in StoreRows \ chosen : \A w \in chosen :
                      ~RGt(RawScore(i, u), RawScore(i, w))
                /\ Len(fwd.gil.gil_logits[i]) = hparams.num_classes
                /\ \A c \in LogitPositions :
                      RMul(fwd.gil.gil_logits[i][c], R(hparams.topk)) =
                      RSum([n \in 1..Len(idx) |->
                               Linear(params.topk_gil_mlp, concept_store.data[idx[n]])[c]])

\* topk = C, on an example whose scores are pairwise distinct
GilSelectsAllRows ==
    /\ CalledOk
    /\ hparams.topk = Len(concept_store.data)
    /\ \A u \in StoreRows : \A w \in StoreRows :
          u # w => RawScore(1, u) # RawScore(1, w)

\* C4: with topk > C concept selection fails, and the failure is a hard stop
\* for the step: no loss is returned and no metric is logged
TopkOutOfRangeStopsStep ==
    (pc = "done" /\ hparams.topk > Len(concept_store.data)) =>
        /\ fwd.status = "error"
        /\ ret.status # "returned"
        /\ ret.loss = NoLoss
        /\ logged = <<>>
        /\ ret.step # "none" => ret.status = "raised"

\* a validation step stopped by the failure
ValidationStepRaised ==
    /\ pc = "done"
    /\ hparams.topk > Len(concept_store.data)
    /\ ret = Raised("validation_step")

LoggedNames == [n \in 1..Len(logged) |-> logged[n].name]

\* C5: every successful step returns the cross-entropy loss of the fused
\* logits against the batch labels; a train step logs train_acc only, a
\* validate step logs val_loss and val_acc, a test step logs nothing; what is
\* logged is logged step-level and epoch-level
StepContracts ==
    (pc = "done" /\ ret.status = "returned") =>
        /\ fwd.status = "ok"
        /\ ret.loss.fn = "cross_entropy"
        /\ ret.loss.input = fwd.logits
        /\ ret.loss.target = fwd.batch.labels
        /\ \A n \in 1..Len(logged) : logged[n].on_step /\ logged[n].on_epoch
        /\ ret.step \in {"training_step", "validation_step", "test_step"}
        /\ ret.step = "training_step" =>
              LoggedNames = <<"train_acc">> /\ logged[1].value = fwd.acc
        /\ ret.step = "validation_step" =>
              /\ LoggedNames = <<"val_loss", "val_acc">>
              /\ logged[1].value = ret.loss
              /\ logged[2].value = fwd.acc
        /\ ret.step = "test_step" => logged = <<>>

\* a test step that returned its loss
TestStepReturned ==
    pc = "done" /\ ret.status = "returned" /\ ret.step = "test_step"

\* the hidden vector of token t of example i
TokenHidden(i, t) == V(EncoderTable[fwd.batch.tokens[i][t]])

\* P = 1 and the only row selects exactly one token: the phrase-level
\* hidden vector is that token's hidden vector
SingleTokenReproduced(i) ==
    LET row == SpanMatrix(i)[1]
        picked == { t \in 1..Len(row) : row[t] = 1 }
    IN  (Len(SpanMatrix(i)) = 1 /\ Cardinality(picked) = 1
            /\ \A t \in 1..Len(row) : row[t] \in {0, 1}) =>
        \A t \in picked : fwd.lil.phrase_level_hidden[i][1] = TokenHidden(i, t)

PaddingSlots(i) ==
    { p \in 1..Len(SpanMatrix(i)) : IsPaddingRow(SpanMatrix(i)[p]) }

AllKept(batch) ==
    [i \in 1..Len(batch.tokens) |-> [d \in 1..Len(EncoderTable[1]) |-> 1]]

\* the model as __init__ leaves it, with the frozen parameters
Fresh(batch) ==
    forward(batch, AllKept(batch), hparams, params,
            [data |-> ConceptStoreData, device |-> "cpu"], "cpu", FALSE)

\* C7: with dropout disabled, every forward call on a batch returns the
\* logits and the accuracy that the freshly constructed model returns for
\* that batch, whatever calls, steps, device moves and mode switches came
\* before; so any two such calls on identical batches agree
ForwardIsDeterministic ==
    (CalledOk /\ ~fwd.train) =>
        /\ fwd.logits = Fresh(fwd.batch).logits
        /\ fwd.acc = Fresh(fwd.batch).acc

\* a dropout-free call on a device the store was moved to by an earlier call
LaterCallOnCuda ==
    /\ CalledOk
    /\ ~fwd.train
    /\ concept_store.device = "cuda"
    /\ ~fwd.copied

\* C8: the LIL logits fed into fusion are the mean of the per-slot phrase
\* logits over all P slots, padding slots included: P times the LIL logit
\* is the sum over every slot (for P = 0 the mean of nothing, NaN)
LilMeanIsUnconditional ==
    CalledOk =>
        \A i \in Examples : \A c \in LogitPositions :
            LET P == Len(SpanMatrix(i))
                slots == [p \in 1..P |-> fwd.lil.phrase_level_logits[i][p][c]]
            IN  /\ P = 0 => IsNaN(fwd.lil_logits[i][c])
                /\ P > 0 => RMul(fwd.lil_logits[i][c], R(P)) = RSum(slots)
                /\ fwd.logits[i][c] =
                      RAdd(RAdd(fwd.base[i][c],
                                RMul(hparams.lamda, fwd.lil_logits[i][c])),
                           RMul(hparams.gamma, fwd.gil.gil_logits[i][c]))

\* a phrase followed by a padding slot, where the padding changes the mean
PaddingDilutesMean ==
    /\ CalledOk
    /\ Len(SpanMatrix(1)) = 2
    /\ PaddingSlots(1) = {2}
    /\ fwd.lil_logits[1] # fwd.lil.phrase_level_logits[1][1]

\* C9: a batch with P = 0, or whose span rows are all zero, is valid:
\* forward raises nothing, the LIL branch pools to a zero contribution, and
\* the fused logits and the accuracy are well-defined
EmptySpansPoolToZero ==
    (Called /\ hparams.topk <= Len(concept_store.data)
            /\ \A i \in Examples : PaddingSlots(i) = 1..Len(SpanMatrix(i))) =>
        /\ fwd.status = "ok"
        /\ \A i \in Examples :
              /\ IsZeroVector(fwd.lil_logits[i])
              /\ ~HasNaN(fwd.logits[i])
        /\ ~IsNaN(fwd.acc) /\ 0 <= fwd.acc[1] /\ fwd.acc[1] <= fwd.acc[2]

\* C10: the concept store always holds the contents loaded at construction
\* and is never among the parameters handed to the optimizer; only a
\* forward call changes it, only by placing it on the model's device, and a
\* forward call on a store already resident there leaves it as it is
ConceptStoreFrame ==
    /\ [](/\ concept_store.data = ConceptStoreData
          /\ "concept_store" \notin optimizer)
    /\ [][/\ concept_store' # concept_store =>
                /\ pc = "idle" /\ pc' = "done"
                /\ concept_store'.device = device
                /\ concept_store'.data = concept_store.data
                /\ fwd'.copied
          /\ (pc = "idle" /\ pc' = "done" /\ concept_store.device = device) =>
                concept_store' = concept_store /\ ~fwd'.copied]_vars

\* a second forward call on the device the first one moved the store to,
\* with the optimizer configured
SecondCallOnSameDevice ==
    /\ pc = "done"
    /\ fwd.status = "ok"
    /\ fwd.train
    /\ ret.step = "training_step"
    /\ concept_store.device = "cuda"
    /\ ~fwd.copied
    /\ optimizer # {}

====
